---- MODULE Spec2Model ----
(***************************************************************************)
(* Connect4 rules engine (src/src/game_logic/connect4.py) as a state       *)
(* machine.  The session is the Connect4 object: its numpy board, move     *)
(* counter, game_state flag, the two Player records and current_player.    *)
(* One action per public operation; the outcome of a call (the exception   *)
(* it raises, or a normal return) is recorded in `signal`.                 *)
(***************************************************************************)
EXTENDS Integers, Sequences, FiniteSets, TLC

(***************************************************************************)
(* Program constants (Connect4.__init__).                                  *)
(***************************************************************************)
rows == 6
columns == 7
_max_moves == rows * columns

(***************************************************************************)
(* Bounds of the exploration.  The board is always the real 6x7 board; the *)
(* bounds restrict the caller.  It tries the column indices                *)
(* -Below .. C-1+Above.  It follows its scripts, and leaves them at most   *)
(* MaxOff times per session: by an accepted move that is not the scripted  *)
(* one or by a call of clear_board, rematch, _clear_scores or              *)
(* board_layout.  Calls that are rejected or ignored are always allowed.   *)
(***************************************************************************)
Below == 1
Above == 1
MaxOff == 1

Inputs == (0 - Below) .. (columns - 1 + Above)

(***************************************************************************)
(* The caller's scripts: column sequences played from an empty board.      *)
(*   DrawGame : 42 moves filling the board with no four-in-a-row.          *)
(*   LastWins : 42 moves, the 42nd completes a four-in-a-row of the mover. *)
(* Both open with the mover stacking three tokens in column 3 while the    *)
(* other player answers in column 0.                                       *)
(* The k-th accepted move of a game is scripted when some script has that  *)
(* column at position k.                                                   *)
(***************************************************************************)
DrawGame == << 3,0,3,0,3,0, 6,6,0,0,0,4, 4,4,2,4,1,5, 5,2,2,6,5,6,
               5,3,6,3,6,4, 4,1,1,5,1,2, 2,1,1,5,2,3 >>
LastWins == << 3,0,3,0,3,0, 6,6,0,0,0,4, 4,4,2,4,1,5, 5,2,2,6,5,6,
               5,3,6,3,6,4, 1,1,1,1,1,3, 2,5,2,2,5,4 >>
Scripts == << DrawGame, LastWins >>

VARIABLES
    board,            \* self._board : [row -> [column -> 0 | 1 | 2]]
    num_of_moves,     \* self._num_of_moves
    game_state,       \* self.game_state : 0 in progress, 1 finished
    current_player,   \* identifier of self.current_player
    wins,             \* wins[i] : wins of the player with identifier i
    row,              \* self.row : row of the last placement, -1 before any
    win_message,      \* self.win_message : winner it names, 0 before any
    signal,           \* outcome of the last call
    op,               \* name of the last call
    arg,              \* column argument of the last make_move call
    accepted,         \* history: moves accepted since the board was cleared
    selections,       \* history: calls of choose_starting_player so far
    win_signals,      \* history: PlayerWin raised since the scores were zeroed
    carried,          \* history: moves were accepted after the last rematch (or
                      \* construction) and before the board was last cleared
    off               \* caller: times it has left its scripts

session == << board, num_of_moves, game_state, current_player, wins,
              row, win_message >>
vars == << board, num_of_moves, game_state, current_player, wins, row,
           win_message, signal, op, arg, accepted, selections, win_signals,
           carried, off >>

(***************************************************************************)
(* Outcomes of a call.                                                     *)
(***************************************************************************)
Returned == [kind |-> "None", val |-> 0]
PlayerWin(player_identifier) == [kind |-> "PlayerWin", val |-> player_identifier]
GameDraw == [kind |-> "GameDraw", val |-> 0]
InvalidMoveError(column) == [kind |-> "InvalidMoveError", val |-> column]
IndexError(column) == [kind |-> "IndexError", val |-> column]

(***************************************************************************)
(* numpy indexing of an axis of length n: i in [0,n) is itself, i in       *)
(* [-n,0) counts from the end, anything else raises IndexError.            *)
(***************************************************************************)
InBounds(i, n) == i >= 0 - n /\ i < n
Idx(i, n) == IF i < 0 THEN i + n ELSE i
Cell(b, r, c) == b[Idx(r, rows)][Idx(c, columns)]

\* mutant: np.ones where the code has np.zeros
OnesBoard == [r \in 0 .. rows - 1 |-> [c \in 0 .. columns - 1 |-> 1]]

EmptyBoard == [r \in 0 .. rows - 1 |-> [c \in 0 .. columns - 1 |-> 0]]

\* choose_starting_player: np.random.choice over the two players
choose_starting_player == {1, 2}

\* _is_valid_move: True when the top cell of the column is empty
\* (otherwise the code raises InvalidMoveError)
_is_valid_move(b, column) == Cell(b, 0, column) = 0

\* mutant: the scan runs from the top row down, range(0, 6)
_get_next_row_top(b, column) ==
    CHOOSE r \in 0 .. 5 :
        /\ Cell(b, r, column) = 0
        /\ \A r2 \in 0 .. (r - 1) : Cell(b, r2, column) # 0

\* mutant: the scan starts one row too high, range(4, -1, -1)
_get_next_row_from4(b, column) ==
    CHOOSE r \in 0 .. 4 :
        /\ Cell(b, r, column) = 0
        /\ \A r2 \in (r + 1) .. 4 : Cell(b, r2, column) # 0

\* _get_next_row: for row in range(5, -1, -1): first row whose cell is 0
_get_next_row(b, column) ==
    CHOOSE r \in 0 .. 5 :
        /\ Cell(b, r, column) = 0
        /\ \A r2 \in (r + 1) .. 5 : Cell(b, r2, column) # 0

\* self._board[self.row][column] = identifier
Place(b, r, column, identifier) ==
    [b EXCEPT ![Idx(r, rows)][Idx(column, columns)] = identifier]

\* mutant: > where the code has ==
_is_board_full_late(n) == n > _max_moves

\* _is_board_full
_is_board_full(n) == n = _max_moves

\* mutant: Player_one if current_player == Player_one else Player_two
_switch_player_same(p) == IF p = 1 THEN 1 ELSE 2

\* _switch_player
_switch_player(p) == IF p = 2 THEN 1 ELSE 2

(***************************************************************************)
(* _is_winning_move: the four scans, with the index ranges of the code.    *)
(***************************************************************************)
\* mutant: range(3) for the columns where the code has range(4)
HorizontalShort(b, id) ==
    \E r \in 0 .. 5, c \in 0 .. 2 : \A i \in 0 .. 3 : Cell(b, r, c + i) = id
Horizontal(b, id) ==
    \E r \in 0 .. 5, c \in 0 .. 3 : \A i \in 0 .. 3 : Cell(b, r, c + i) = id
\* mutant: range(2) where the code has range(3)
VerticalShort(b, id) ==
    \E r \in 0 .. 1, c \in 0 .. 6 : \A i \in 0 .. 3 : Cell(b, r + i, c) = id
Vertical(b, id) ==
    \E r \in 0 .. 2, c \in 0 .. 6 : \A i \in 0 .. 3 : Cell(b, r + i, c) = id
DiagonalUp(b, id) ==
    \E r \in 3 .. 5, c \in 0 .. 3 : \A i \in 0 .. 3 : Cell(b, r - i, c + i) = id
\* mutant: range(3) for the columns where the code has range(4)
DiagonalDownNarrow(b, id) ==
    \E r \in 0 .. 2, c \in 0 .. 2 : \A i \in 0 .. 3 : Cell(b, r + i, c + i) = id
DiagonalDown(b, id) ==
    \E r \in 0 .. 2, c \in 0 .. 3 : \A i \in 0 .. 3 : Cell(b, r + i, c + i) = id
_is_winning_move(b, id) ==
    Horizontal(b, id) \/ Vertical(b, id) \/ DiagonalUp(b, id) \/ DiagonalDown(b, id)

(***************************************************************************)
(* Connect4.__init__                                                       *)
(***************************************************************************)
Init ==
    /\ board = EmptyBoard
    /\ num_of_moves = 0
    /\ game_state = 0
    /\ current_player \in choose_starting_player
    /\ wins = [i \in {1, 2} |-> 0]
    /\ row = -1
    /\ win_message = 0
    /\ signal = Returned
    /\ op = "__init__"
    /\ arg = 0
    /\ accepted = 0
    /\ selections = 1
    /\ win_signals = 0
    /\ carried = FALSE
    /\ off = 0

(***************************************************************************)
(* make_move.                                                              *)
(***************************************************************************)
\* mutant: the guard compares with the wrong constant
FinishedNever(gs) == gs > 1

\* line 103: a session whose game_state is not 0 takes no move
Finished(gs) == gs # 0

\* mutant: _switch_player runs although the call placed nothing
NoEffectSwitches(outcome) ==
    /\ signal' = outcome
    /\ current_player' = _switch_player(current_player)
    /\ UNCHANGED << board, num_of_moves, game_state, wins, row, win_message,
                    accepted, off >>

\* lines 103-104 and 106: the call returns, or an exception leaves it,
\* before anything has been assigned
NoEffect(outcome) ==
    /\ signal' = outcome
    /\ UNCHANGED << session, accepted, off >>

\* mutant: the win is signalled but not counted
OnWinUncounted ==
    /\ win_message' = current_player
    /\ game_state' = 1
    /\ signal' = PlayerWin(current_player)
    /\ UNCHANGED << current_player, wins >>

\* mutant: the win is counted twice
OnWinTwice ==
    /\ wins' = [wins EXCEPT ![current_player] = @ + 2]
    /\ win_message' = current_player
    /\ game_state' = 1
    /\ signal' = PlayerWin(current_player)
    /\ UNCHANGED current_player

\* lines 111-115
OnWin ==
    /\ wins' = [wins EXCEPT ![current_player] = @ + 1]
    /\ win_message' = current_player
    /\ game_state' = 1
    /\ signal' = PlayerWin(current_player)
    /\ UNCHANGED current_player

\* mutant: the draw is signalled but game_state is not set
OnDrawStaysOpen ==
    /\ signal' = GameDraw
    /\ UNCHANGED << game_state, current_player, wins, win_message >>

\* lines 117-119
OnDraw ==
    /\ game_state' = 1
    /\ signal' = GameDraw
    /\ UNCHANGED << current_player, wins, win_message >>

\* mutant: _switch_player is not called
OnContinueKeepsTurn ==
    /\ signal' = Returned
    /\ UNCHANGED << game_state, current_player, wins, win_message >>

\* line 121
OnContinue ==
    /\ current_player' = _switch_player(current_player)
    /\ signal' = Returned
    /\ UNCHANGED << game_state, wins, win_message >>

\* mutant: the full board is looked for before the win
PostPlacementDrawFirst ==
    IF _is_board_full(num_of_moves')
    THEN OnDraw
    ELSE IF _is_winning_move(board', current_player)
    THEN OnWin
    ELSE OnContinue

\* lines 111-121: the win is looked for first, then the full board
PostPlacement ==
    IF _is_winning_move(board', current_player)
    THEN OnWin
    ELSE IF _is_board_full(num_of_moves')
    THEN OnDraw
    ELSE OnContinue

\* the caller: the scripted column for the next accepted move of the game
OnScript(column) ==
    \E s \in 1 .. Len(Scripts) :
        /\ num_of_moves < Len(Scripts[s])
        /\ column = Scripts[s][num_of_moves + 1]

\* mutant: line 109 is missing, the move is not counted
make_moveUncounted(column) ==
    /\ op' = "make_move"
    /\ arg' = column
    /\ UNCHANGED << selections, carried >>
    /\ IF Finished(game_state)
       THEN NoEffect(Returned)
       ELSE IF ~InBounds(column, columns)
       THEN NoEffect(IndexError(column))
       ELSE IF ~_is_valid_move(board, column)
       THEN NoEffect(InvalidMoveError(column))
       ELSE /\ IF OnScript(column)
               THEN off' = off
               ELSE off < MaxOff /\ off' = off + 1
            /\ row' = _get_next_row(board, column)
            /\ board' = Place(board, row', column, current_player)
            /\ num_of_moves' = num_of_moves
            /\ accepted' = accepted + 1
            /\ PostPlacement
    /\ win_signals' = IF signal'.kind = "PlayerWin"
                      THEN win_signals + 1
                      ELSE win_signals

make_move(column) ==
    /\ op' = "make_move"
    /\ arg' = column
    /\ UNCHANGED << selections, carried >>
    /\ IF Finished(game_state)
       THEN NoEffect(Returned)
       ELSE IF ~InBounds(column, columns)
       THEN NoEffect(IndexError(column))
       ELSE IF ~_is_valid_move(board, column)
       THEN NoEffect(InvalidMoveError(column))
       ELSE /\ IF OnScript(column)
               THEN off' = off
               ELSE off < MaxOff /\ off' = off + 1
            /\ row' = _get_next_row(board, column)
            /\ board' = Place(board, row', column, current_player)
            /\ num_of_moves' = num_of_moves + 1
            /\ accepted' = accepted + 1
            /\ PostPlacement
    /\ win_signals' = IF signal'.kind = "PlayerWin"
                      THEN win_signals + 1
                      ELSE win_signals

(***************************************************************************)
(* clear_board, rematch (Connect4), _clear_scores (Connect4_GUI).          *)
(***************************************************************************)
\* the caller leaves its scripts by any of these calls
Unscripted(name) ==
    /\ off < MaxOff
    /\ off' = off + 1
    /\ op' = name
    /\ arg' = 0

\* mutant: the board is cleared but the move counter is kept
ClearBoardKeepsCount ==
    /\ board' = EmptyBoard
    /\ accepted' = 0
    /\ UNCHANGED num_of_moves

\* lines 72-73
ClearBoardEffect ==
    /\ board' = EmptyBoard
    /\ num_of_moves' = 0
    /\ accepted' = 0

\* mutant: the game is reopened as well
clear_boardReopens ==
    /\ Unscripted("clear_board")
    /\ signal' = Returned
    /\ ClearBoardEffect
    /\ game_state' = 0
    /\ carried' = (carried \/ accepted > 0)
    /\ UNCHANGED << current_player, wins, row, win_message, selections,
                    win_signals >>

clear_board ==
    /\ Unscripted("clear_board")
    /\ signal' = Returned
    /\ ClearBoardEffect
    /\ carried' = (carried \/ accepted > 0)
    /\ UNCHANGED << game_state, current_player, wins, row, win_message,
                    selections, win_signals >>

\* mutant: game_state is not put back to 0
rematchStaysFinished ==
    /\ Unscripted("rematch")
    /\ signal' = Returned
    /\ ClearBoardEffect
    /\ current_player' \in choose_starting_player
    /\ selections' = selections + 1
    /\ carried' = FALSE
    /\ UNCHANGED << game_state, wins, row, win_message, win_signals >>

\* Connect4.rematch.  Connect4_GUI.rematch calls it and then _game_menu,
\* which draws the starting player once more: the same set of outcomes.
rematch ==
    /\ Unscripted("rematch")
    /\ signal' = Returned
    /\ game_state' = 0
    /\ ClearBoardEffect
    /\ current_player' \in choose_starting_player
    /\ selections' = selections + 1
    /\ carried' = FALSE
    /\ UNCHANGED << wins, row, win_message, win_signals >>

\* mutant: only Player_one.wins is zeroed
_clear_scoresOfOne ==
    /\ Unscripted("_clear_scores")
    /\ signal' = Returned
    /\ ClearBoardEffect
    /\ game_state' = 0
    /\ wins' = [wins EXCEPT ![1] = 0]
    /\ win_signals' = 0
    /\ carried' = (carried \/ accepted > 0)
    /\ UNCHANGED << current_player, row, win_message, selections >>

\* Connect4_GUI._clear_scores: choose_starting_player is not called here
_clear_scores ==
    /\ Unscripted("_clear_scores")
    /\ signal' = Returned
    /\ ClearBoardEffect
    /\ game_state' = 0
    /\ wins' = [i \in {1, 2} |-> 0]
    /\ win_signals' = 0
    /\ carried' = (carried \/ accepted > 0)
    /\ UNCHANGED << current_player, row, win_message, selections >>

\* mutant: a fresh grid is returned instead of self._board
board_layoutOfZeros ==
    /\ Unscripted("board_layout")
    /\ signal' = [kind |-> "ndarray", val |-> EmptyBoard]
    /\ UNCHANGED << session, accepted, selections, win_signals, carried >>

\* board_layout: return self._board
board_layout ==
    /\ Unscripted("board_layout")
    /\ signal' = [kind |-> "ndarray", val |-> board]
    /\ UNCHANGED << session, accepted, selections, win_signals, carried >>

Next ==
    \/ \E column \in Inputs : make_move(column)
    \/ clear_board
    \/ rematch
    \/ _clear_scores
    \/ board_layout

Spec == Init /\ [][Next]_vars

(***************************************************************************)
(* Vocabulary of the properties: the board as a grid of cells, independent *)
(* of how the code scans it.                                               *)
(***************************************************************************)
Cells == (0 .. rows - 1) \X (0 .. columns - 1)
OnBoard(r, c) == r \in 0 .. rows - 1 /\ c \in 0 .. columns - 1
Tokens(b) == Cardinality({ rc \in Cells : b[rc[1]][rc[2]] # 0 })
BoardFull(b) == \A rc \in Cells : b[rc[1]][rc[2]] # 0

\* right, down, up-right (bottom-left to top-right), down-right
Directions == { << 0, 1 >>, << 1, 0 >>, << -1, 1 >>, << 1, 1 >> }

\* the four cells from (r, c) along direction d
Line(r, c, d) == [i \in 0 .. 3 |-> << r + i * d[1], c + i * d[2] >>]

\* every line of four cells that lies on the board
FourLines ==
    { l \in { Line(rc[1], rc[2], d) : rc \in Cells, d \in Directions } :
          \A i \in 0 .. 3 : l[i] \in Cells }

\* player p owns the four cells of the board along direction d from (r, c)
LineOf(b, p, r, c, d) ==
    \A i \in 0 .. 3 :
        /\ OnBoard(r + i * d[1], c + i * d[2])
        /\ b[r + i * d[1]][c + i * d[2]] = p
FourInARow(b, p) ==
    \E l \in FourLines : \A i \in 0 .. 3 : b[l[i][1]][l[i][2]] = p

\* the largest row index whose cell in column c is empty
HasEmpty(b, c) == \E r \in 0 .. rows - 1 : b[r][c] = 0
LowestEmpty(b, c) ==
    CHOOSE r \in 0 .. rows - 1 :
        /\ b[r][c] = 0
        /\ \A r2 \in 0 .. rows - 1 : b[r2][c] = 0 => r2 <= r

\* the step is a make_move call on an in-progress session that raised neither
\* InvalidMoveError nor IndexError
Rejections == { "InvalidMoveError", "IndexError" }
AcceptedStep ==
    /\ op' = "make_move"
    /\ game_state = 0
    /\ signal'.kind \notin Rejections
RejectedStep ==
    /\ op' = "make_move"
    /\ signal'.kind \in Rejections

(***************************************************************************)
(* C1: an accepted make_move(column), column in [0, C), writes the current *)
(* player's identifier into the lowest empty row of that column, adds      *)
(* exactly 1 to the move counter and changes no other cell.                *)
(***************************************************************************)
C1_GravityPlacement ==
    [][ (AcceptedStep /\ arg' \in 0 .. columns - 1) =>
            /\ HasEmpty(board, arg')
            /\ LET target == << LowestEmpty(board, arg'), arg' >>
               IN  /\ board'[target[1]][target[2]] = current_player
                   /\ \A rc \in Cells \ { target } :
                          board'[rc[1]][rc[2]] = board[rc[1]][rc[2]]
            /\ num_of_moves' = num_of_moves + 1 ]_vars

\* a token has just been stacked on two others
C1_Witness ==
    /\ op = "make_move"
    /\ signal.kind = "None"
    /\ arg \in 0 .. columns - 1
    /\ row = 3
    /\ board[3][arg] # 0
    /\ board[2][arg] = 0

(***************************************************************************)
(* C2: an accepted move signals PlayerWin for the mover exactly when the   *)
(* board after the placement holds four consecutive cells of the mover     *)
(* along a row, a column or either diagonal; and every cell the four scans *)
(* read is a cell of the 6x7 board.                                        *)
(***************************************************************************)
ScannedCells ==
    { << r, c + i >> : r \in 0 .. 5, c \in 0 .. 3, i \in 0 .. 3 }
    \cup { << r + i, c >> : r \in 0 .. 2, c \in 0 .. 6, i \in 0 .. 3 }
    \cup { << r - i, c + i >> : r \in 3 .. 5, c \in 0 .. 3, i \in 0 .. 3 }
    \cup { << r + i, c + i >> : r \in 0 .. 2, c \in 0 .. 3, i \in 0 .. 3 }

ScansStayOnBoard == ScannedCells \subseteq Cells

C2_WinDetection ==
    [][ AcceptedStep =>
            /\ (signal' = PlayerWin(current_player))
                   <=> FourInARow(board', current_player)
            /\ signal'.kind = "PlayerWin" => signal'.val = current_player
            /\ ScansStayOnBoard ]_vars

\* the shape of the spec's diagonal scenario: the token just placed is the
\* upper right end of a bottom-left-to-top-right line of the mover
C2_Witness ==
    /\ signal.kind = "PlayerWin"
    /\ op = "make_move"
    /\ arg \in 3 .. columns - 1
    /\ row \in 0 .. 2
    /\ LineOf(board, signal.val, row + 3, arg - 3, << -1, 1 >>)
    /\ ~Horizontal(board, signal.val)
    /\ ~Vertical(board, signal.val)

(***************************************************************************)
(* C3: an accepted move that completes a four-in-a-row for the mover adds  *)
(* exactly 1 to the mover's win counter, leaves the other counter alone,   *)
(* finishes the game, signals PlayerWin with the mover's identifier and    *)
(* does not advance current_player.                                        *)
(***************************************************************************)
C3_WinEffects ==
    [][ (AcceptedStep /\ FourInARow(board', current_player)) =>
            /\ wins'[current_player] = wins[current_player] + 1
            /\ wins'[3 - current_player] = wins[3 - current_player]
            /\ game_state' = 1
            /\ signal' = PlayerWin(current_player)
            /\ current_player' = current_player ]_vars

\* a second win in the session: the counters are 1 and 1, or 2 and 0
C3_Witness ==
    /\ signal.kind = "PlayerWin"
    /\ wins[1] + wins[2] = 2
    /\ wins[signal.val] >= 1
    /\ game_state = 1

(***************************************************************************)
(* C4: an accepted move that fills the board without a four-in-a-row of    *)
(* the mover finishes the game and signals GameDraw, not PlayerWin, and    *)
(* changes neither win counter.                                            *)
(***************************************************************************)
C4_DrawEffects ==
    [][ (AcceptedStep /\ num_of_moves' = rows * columns
             /\ ~FourInARow(board', current_player)) =>
            /\ game_state' = 1
            /\ signal' = GameDraw
            /\ wins' = wins ]_vars

C4_Witness ==
    /\ signal = GameDraw
    /\ BoardFull(board)
    /\ num_of_moves = rows * columns
    /\ game_state = 1

(***************************************************************************)
(* C5: when the move that places the 42nd token also completes a           *)
(* four-in-a-row of the mover, the outcome is a win: PlayerWin is          *)
(* signalled, the mover's win counter grows by 1, GameDraw is not raised.  *)
(***************************************************************************)
C5_WinBeforeDraw ==
    [][ (AcceptedStep /\ BoardFull(board')
             /\ FourInARow(board', current_player)) =>
            /\ signal' = PlayerWin(current_player)
            /\ signal' # GameDraw
            /\ wins'[current_player] = wins[current_player] + 1 ]_vars

C5_Witness ==
    /\ signal.kind = "PlayerWin"
    /\ BoardFull(board)
    /\ num_of_moves = rows * columns
    /\ FourInARow(board, signal.val)

(***************************************************************************)
(* C6: make_move(c), c in [0, C), on an in-progress session whose column c *)
(* has its top cell occupied raises InvalidMoveError and leaves the        *)
(* session as it was: board, move counter, current player, game state and  *)
(* both win counters.                                                      *)
(***************************************************************************)
C6_FullColumnRejected ==
    [][ (op' = "make_move" /\ game_state = 0 /\ arg' \in 0 .. columns - 1
             /\ board[0][arg'] # 0) =>
            /\ signal' = InvalidMoveError(arg')
            /\ UNCHANGED << board, num_of_moves, current_player, game_state,
                            wins >> ]_vars

\* the seventh call on a column of six tokens
C6_Witness ==
    /\ signal.kind = "InvalidMoveError"
    /\ op = "make_move"
    /\ signal.val = arg
    /\ game_state = 0
    /\ \A r \in 0 .. rows - 1 : board[r][arg] # 0

(***************************************************************************)
(* C7: make_move with a column index outside [0, C) raises                 *)
(* InvalidMoveError and changes neither the move counter nor the board.    *)
(***************************************************************************)
C7_OutOfRangeRejected ==
    [][ (op' = "make_move" /\ game_state = 0
             /\ arg' \notin 0 .. columns - 1) =>
            /\ signal'.kind = "InvalidMoveError"
            /\ num_of_moves' = num_of_moves
            /\ board' = board ]_vars

(***************************************************************************)
(* C8: on a finished session every make_move call leaves board, move       *)
(* counter, current player, both win counters and the state as they were;  *)
(* a step from Finished to InProgress is a rematch or a score reset.       *)
(***************************************************************************)
C8_FinishedIsTerminal ==
    [][ /\ (game_state = 1 /\ op' = "make_move") =>
               UNCHANGED << board, num_of_moves, current_player, wins,
                            game_state >>
        /\ (game_state = 1 /\ game_state' # 1) =>
               /\ op' \in { "rematch", "_clear_scores" }
               /\ game_state' = 0 ]_vars

\* a make_move call has returned on a finished session
C8_Witness ==
    /\ game_state = 1
    /\ op = "make_move"
    /\ signal = Returned

(***************************************************************************)
(* C9: an in-progress session becomes finished exactly by a make_move call *)
(* whose placement gives the mover a four-in-a-row or fills the board; a   *)
(* rejected move leaves the state as it was.                               *)
(***************************************************************************)
C9_FinishTransition ==
    [][ /\ game_state = 0 =>
               ((game_state' = 1) <=>
                    /\ AcceptedStep
                    /\ \/ FourInARow(board', current_player)
                       \/ BoardFull(board'))
        /\ game_state' \in { 0, 1 }
        /\ RejectedStep => game_state' = game_state ]_vars

\* a session finished by a win while the board still has empty cells
C9_Witness ==
    /\ game_state = 1
    /\ op = "make_move"
    /\ signal.kind = "PlayerWin"
    /\ num_of_moves < rows * columns
    /\ ~BoardFull(board)

(***************************************************************************)
(* C10: the move counter equals the number of non-empty cells, equals the  *)
(* number of moves accepted since the board was last cleared, and never    *)
(* exceeds R*C = 42.                                                       *)
(***************************************************************************)
C10_MoveCount ==
    /\ num_of_moves = Tokens(board)
    /\ num_of_moves = accepted
    /\ num_of_moves <= rows * columns

\* moves accepted in the game that follows the rematch after a won game
C10_Witness ==
    /\ game_state = 0
    /\ wins[1] + wins[2] >= 1
    /\ op = "make_move"
    /\ num_of_moves >= 4

(***************************************************************************)
(* C11: in every column the occupied cells are a run that starts at the    *)
(* bottom row: no occupied cell has an empty cell below it.                *)
(***************************************************************************)
C11_NoFloatingToken ==
    \A c \in 0 .. columns - 1 : \A r \in 0 .. rows - 2 :
        board[r][c] # 0 => board[r + 1][c] # 0

\* columns of different heights, one of them full and one empty
C11_Witness ==
    /\ \E c \in 0 .. columns - 1 : board[0][c] # 0
    /\ \E c \in 0 .. columns - 1 : board[rows - 1][c] = 0
    /\ \E c \in 0 .. columns - 1 : board[3][c] # 0 /\ board[2][c] = 0

(***************************************************************************)
(* C12: a make_move call hands the turn to the other player exactly when   *)
(* the move is accepted and neither wins nor fills the board; every other  *)
(* make_move call leaves current_player as it was; two accepted moves in   *)
(* a row are made by different players.                                    *)
(***************************************************************************)
C12_TurnOrder ==
    [][ op' = "make_move" =>
            /\ IF /\ AcceptedStep
                  /\ ~FourInARow(board', current_player)
                  /\ ~BoardFull(board')
               THEN current_player' = 3 - current_player
               ELSE current_player' = current_player
            /\ (AcceptedStep /\ op = "make_move" /\ signal.kind = "None"
                    /\ accepted > 0) =>
                   board[row][Idx(arg, columns)] # current_player ]_vars

\* the turn has passed: the last token is not the current player's
C12_Witness ==
    /\ op = "make_move"
    /\ signal.kind = "None"
    /\ game_state = 0
    /\ num_of_moves >= 2
    /\ board[row][Idx(arg, columns)] = 3 - current_player

(***************************************************************************)
(* C13: rematch, in any state, leaves the board empty, the move counter 0, *)
(* the state in progress, current_player one of the two players, and both  *)
(* win counters as they were.                                              *)
(***************************************************************************)
C13_Rematch ==
    [][ op' = "rematch" =>
            /\ \A rc \in Cells : board'[rc[1]][rc[2]] = 0
            /\ num_of_moves' = 0
            /\ game_state' = 0
            /\ current_player' \in { 1, 2 }
            /\ wins' = wins ]_vars

\* after a won game the rematch gave the first move to the loser
C13_Witness ==
    /\ op = "rematch"
    /\ game_state = 0
    /\ wins[1] + wins[2] = 1
    /\ win_message \in { 1, 2 }
    /\ current_player = 3 - win_message

C15_Constructed ==
    op = "__init__" =>
        /\ DOMAIN board = 0 .. 5
        /\ \A r \in 0 .. 5 : DOMAIN board[r] = 0 .. 6
        /\ \A rc \in Cells : board[rc[1]][rc[2]] = 0
        /\ num_of_moves = 0
        /\ game_state = 0
        /\ wins[1] = 0 /\ wins[2] = 0
        /\ current_player \in { 1, 2 }

\* a new session in which player 2 moves first
C15_Witness ==
    /\ op = "__init__"
    /\ current_player = 2
    /\ num_of_moves = 0

(***************************************************************************)
(* _is_winning_move as a function of a board and a player.  The boards     *)
(* given to it: a uniform background (empty, or all cells of one player),  *)
(* one line of four cells of a player stamped on it at any place and in    *)
(* any direction, and at most MaxBroken cells of that line overwritten.    *)
(***************************************************************************)
MaxBroken == 1

Uniform(v) == [r \in 0 .. rows - 1 |-> [c \in 0 .. columns - 1 |-> v]]
Stamp(b, cells, v) ==
    [r \in 0 .. rows - 1 |->
        [c \in 0 .. columns - 1 |-> IF << r, c >> \in cells THEN v ELSE b[r][c]]]
LineCells(l) == { l[i] : i \in 0 .. 3 }
BrokenSets(l) == { s \in SUBSET LineCells(l) : Cardinality(s) <= MaxBroken }
TestBoards ==
    UNION { { Stamp(Stamp(Uniform(bg), LineCells(l), p), s, v) :
                  s \in BrokenSets(l), p \in { 1, 2 }, bg \in 0 .. 2, v \in 0 .. 2 } :
            l \in FourLines }

\* the left-right mirror image: column c goes to column columns - 1 - c
Mirror(b) ==
    [r \in 0 .. rows - 1 |-> [c \in 0 .. columns - 1 |-> b[r][columns - 1 - c]]]

InitBoards ==
    /\ board \in TestBoards
    /\ num_of_moves = Tokens(board)
    /\ game_state = 0
    /\ current_player = 1
    /\ wins = [i \in { 1, 2 } |-> 0]
    /\ row = -1
    /\ win_message = 0
    /\ signal = Returned
    /\ op = "boards"
    /\ arg = 0
    /\ accepted = 0
    /\ selections = 1
    /\ win_signals = 0
    /\ carried = FALSE
    /\ off = 0

\* self._is_winning_move(player) on the board at hand
scan(id) ==
    /\ op' = "_is_winning_move"
    /\ arg' = id
    /\ signal' = [kind |-> "bool", val |-> _is_winning_move(board, id)]
    /\ UNCHANGED << session, accepted, selections, win_signals, carried, off >>

\* the caller replaces the board by its mirror image
fliplr ==
    /\ op' = "fliplr"
    /\ arg' = 0
    /\ signal' = Returned
    /\ board' = Mirror(board)
    /\ UNCHANGED << num_of_moves, game_state, current_player, wins, row,
                    win_message, accepted, selections, win_signals, carried,
                    off >>

NextBoards ==
    \/ \E id \in { 1, 2 } : scan(id)
    \/ fliplr

SpecBoards == InitBoards /\ [][NextBoards]_vars

(***************************************************************************)
(* C16: what _is_winning_move returned for a board and a player is what it *)
(* returns for the left-right mirror image of that board and that player.  *)
(***************************************************************************)
C16_MirrorSymmetry ==
    op = "_is_winning_move" => signal.val = _is_winning_move(Mirror(board), arg)

\* a win found on a falling diagonal only, which the mirror shows as a rising one
C16_Witness ==
    /\ op = "_is_winning_move"
    /\ signal.val = TRUE
    /\ DiagonalDown(board, arg)
    /\ ~DiagonalUp(board, arg) /\ ~Horizontal(board, arg) /\ ~Vertical(board, arg)
    /\ DiagonalUp(Mirror(board), arg)
    /\ ~DiagonalDown(Mirror(board), arg)

(***************************************************************************)
(* C17: board_layout returns exactly the grid of the session and changes   *)
(* nothing of the session; every cell of the grid is always 0, 1 or 2, and *)
(* an accepted move writes the identifier of the player who made it.       *)
(***************************************************************************)
C17_BoardLayout ==
    /\ [](\A rc \in Cells : board[rc[1]][rc[2]] \in { 0, 1, 2 })
    /\ [][ /\ op' = "board_layout" =>
                  /\ signal'.kind = "ndarray"
                  /\ signal'.val = board
                  /\ session' = session
           /\ AcceptedStep => board'[row'][Idx(arg', columns)] = current_player ]_vars

\* the grid of a game under way was read: it holds tokens of both players
C17_Witness ==
    /\ op = "board_layout"
    /\ signal.val = board
    /\ \E rc \in Cells : board[rc[1]][rc[2]] = 1
    /\ \E rc \in Cells : board[rc[1]][rc[2]] = 2
    /\ BoardFull(board) = FALSE

(***************************************************************************)
(* C18: while the game is in progress no player has four cells in a row in *)
(* any direction; and whenever make_move finishes the game, the board then *)
(* holds four in a row of the player who moved or is completely full (and  *)
(* nothing but make_move finishes a game).                                 *)
(***************************************************************************)
C18_NoMissedWin ==
    /\ [](game_state = 0 => \A p \in { 1, 2 } : ~FourInARow(board, p))
    /\ [][ (game_state = 0 /\ game_state' = 1) =>
               /\ op' = "make_move"
               /\ FourInARow(board', current_player) \/ BoardFull(board') ]_vars

\* a game just won: the mover's four in a row on a board that is not full
C18_Witness ==
    /\ op = "make_move"
    /\ game_state = 1
    /\ board[row][Idx(arg, columns)] = current_player
    /\ FourInARow(board, current_player)
    /\ ~FourInARow(board, 3 - current_player)
    /\ ~BoardFull(board)
    /\ num_of_moves < 20

(***************************************************************************)
(* C19: the numbers of tokens of the two players on the board differ by at *)
(* most one, and while the game is in progress the player to move has no   *)
(* more tokens on the board than the other player.                         *)
(***************************************************************************)
TokensOf(b, p) == Cardinality({ rc \in Cells : b[rc[1]][rc[2]] = p })

C19_TokenBalance ==
    LET mine == TokensOf(board, current_player)
        theirs == TokensOf(board, 3 - current_player)
    IN  /\ mine - theirs \in { -1, 0, 1 }
        /\ game_state = 0 => mine <= theirs

\* mid-game, the player to move is one token behind
C19_Witness ==
    /\ game_state = 0
    /\ num_of_moves >= 5
    /\ TokensOf(board, current_player) + 1 = TokensOf(board, 3 - current_player)

(***************************************************************************)
(* C20: the two win counters add up to the number of PlayerWin signals     *)
(* raised since construction or the last _clear_scores; a counter changes  *)
(* only by _clear_scores or by one in the make_move that finishes a game,  *)
(* so a game adds at most one; and no counter decreases except by          *)
(* _clear_scores.                                                          *)
(***************************************************************************)
C20_WinCount ==
    /\ [](wins[1] + wins[2] = win_signals)
    /\ [][ op' # "_clear_scores" =>
               /\ wins'[1] >= wins[1] /\ wins'[2] >= wins[2]
               /\ wins' # wins =>
                      /\ op' = "make_move"
                      /\ signal'.kind = "PlayerWin"
                      /\ game_state = 0 /\ game_state' = 1
                      /\ wins'[1] + wins'[2] = wins[1] + wins[2] + 1 ]_vars

\* the second game after a rematch was won as well
C20_Witness ==
    /\ op = "make_move"
    /\ signal.kind = "PlayerWin"
    /\ wins[1] + wins[2] = 2
    /\ win_signals = 2

(***************************************************************************)
(* C21, as claimed: while the game is in progress the move counter is      *)
(* below 42 and some column 0..6 accepts a move, and the session is        *)
(* finished after at most 42 accepted moves since the last rematch: while  *)
(* in progress, fewer than 42 moves have been accepted since then.         *)
(* accepted counts the moves since the board was last cleared; when        *)
(* carried holds at least one more was accepted since the last rematch.    *)
(***************************************************************************)
SinceRematchAtLeast == accepted + (IF carried THEN 1 ELSE 0)

C21_FinishedWithin42OfRematch ==
    /\ SinceRematchAtLeast <= _max_moves
    /\ game_state = 0 =>
           /\ num_of_moves < _max_moves
           /\ \E c \in 0 .. columns - 1 : _is_valid_move(board, c)
           /\ SinceRematchAtLeast < _max_moves

(***************************************************************************)
(* C21, amended: while the game is in progress the move counter is below   *)
(* 42 and some column 0..6 accepts a move; a move on an accepting column   *)
(* is accepted and counted; and the session is finished after at most 42   *)
(* accepted moves since the board was last cleared (by construction,       *)
(* rematch, clear_board or _clear_scores).                                 *)
(***************************************************************************)
C21_Terminates ==
    /\ [](/\ accepted <= _max_moves
          /\ game_state = 0 =>
                 /\ num_of_moves < _max_moves
                 /\ accepted < _max_moves
                 /\ \E c \in 0 .. columns - 1 : _is_valid_move(board, c))
    /\ [][ ( /\ op' = "make_move"
             /\ game_state = 0
             /\ arg' \in 0 .. columns - 1
             /\ _is_valid_move(board, arg') ) =>
               /\ accepted' = accepted + 1
               /\ num_of_moves' = num_of_moves + 1
               /\ accepted' = _max_moves => game_state' = 1 ]_vars

\* a game cleared on its way and then played to its 42nd move
C21_Witness ==
    /\ carried
    /\ op = "make_move"
    /\ game_state = 1
    /\ accepted = _max_moves
    /\ BoardFull(board)

(***************************************************************************)
(* C22: clear_board empties every cell and sets the move counter to 0 and  *)
(* changes nothing else: game_state, current_player, both win counters,    *)
(* row and win_message are as they were.                                   *)
(***************************************************************************)
C22_ClearBoardFrame ==
    [][ op' = "clear_board" =>
            /\ \A rc \in Cells : board'[rc[1]][rc[2]] = 0
            /\ num_of_moves' = 0
            /\ game_state' = game_state
            /\ current_player' = current_player
            /\ wins' = wins
            /\ row' = row
            /\ win_message' = win_message ]_vars

\* called alone on a session finished by a win: finished, with an empty board
C22_Witness ==
    /\ op = "clear_board"
    /\ game_state = 1
    /\ Tokens(board) = 0
    /\ num_of_moves = 0
    /\ win_message \in { 1, 2 }
    /\ wins[win_message] = 1
    /\ current_player = win_message

====
